---- MODULE Spec2Model ----
(***************************************************************************)
(* Vehicle routing heuristics of example_agent: the nearest neighbor       *)
(* constructor, the Clarke-Wright savings constructor and the 2-opt        *)
(* improver (intra-route reversal and inter-route swap).                   *)
(*                                                                         *)
(* Customers are the indices 0..NumCustomers-1, as in the source.  A       *)
(* Python list is a sequence here, so the Python element l[k] is the       *)
(* element l[k+1] of the sequence.  A float distance is a fixed-point      *)
(* number: an integer count of 1/Scale.                                    *)
(***************************************************************************)
EXTENDS Integers, Sequences, FiniteSets, TLC

\* ---------------------------------------------------------------- bounds
NumCustomers == 4
MaxDemand == 2
MaxCapacity == 2
MaxVehicles == 2
MaxIterations == 2
MaxPasses == 10

\* The points a customer can lie on, and the places of the depot.
Points == {<<1, 0>>, <<-1, 0>>, <<1, 1>>}
Depots == {<<0, 0>>}

\* Resolution of a distance: 1/Scale is the unit, so 0.001 is 1.
Scale == 1000

Customer == 0..(NumCustomers - 1)

VARIABLES
    depot, customers, demands, vehicle_capacity, num_vehicles,
    distance_matrix, savings_list,
    pc,
    unvisited, routes, total_distance, vehicle_count,
    route, current_load, current_position, route_distance,
    route_loads, customer_to_route, sav_idx,
    result,
    heap, initial_routes, max_iterations, call, routes_at_call, first_call,
    current_routes, current_distance, improvement_found,
    iterations_without_improvement, total_iterations

instance == <<depot, customers, demands, vehicle_capacity, num_vehicles,
              distance_matrix, savings_list>>
nnState == <<unvisited, total_distance, vehicle_count,
             route, current_load, current_position, route_distance>>
savState == <<route_loads, customer_to_route, sav_idx>>
callState == <<initial_routes, max_iterations, call, routes_at_call, first_call>>
optState == <<heap, callState, current_routes, current_distance, improvement_found,
              iterations_without_improvement, total_iterations>>
vars == <<instance, pc, routes, nnState, savState, result, optState>>

\* ------------------------------------------------------- shared helpers
RECURSIVE SumSeq(_)
SumSeq(s) == IF s = <<>> THEN 0 ELSE Head(s) + SumSeq(Tail(s))

Reverse(s) == [k \in 1..Len(s) |-> s[Len(s) + 1 - k]]

Range(s) == {s[k] : k \in 1..Len(s)}

RECURSIVE Flatten(_)
Flatten(rs) == IF rs = <<>> THEN <<>> ELSE Head(rs) \o Flatten(Tail(rs))

\* math.sqrt, to the resolution of the model: the largest r with r*r <= x.
RECURSIVE SqrtSearch(_, _, _)
SqrtSearch(x, lo, hi) ==
    IF lo = hi THEN lo
    ELSE LET mid == (lo + hi + 1) \div 2
         IN IF mid * mid <= x THEN SqrtSearch(x, mid, hi)
            ELSE SqrtSearch(x, lo, mid - 1)

\* sqrt(d2) in units of 1/Scale; it is at most d2 * Scale.
EuclideanDistance(point1, point2) ==
    LET d2 == (point1[1] - point2[1]) * (point1[1] - point2[1])
              + (point1[2] - point2[2]) * (point1[2] - point2[2])
    IN SqrtSearch(d2 * Scale * Scale, 0, d2 * Scale)

\* The distances between the points of the model, computed once.
DistanceTable ==
    [point1 \in Points \cup Depots |->
        [point2 \in Points \cup Depots |-> EuclideanDistance(point1, point2)]]

\* points = [depot] + customers; matrix[i][j] over 0..n-1.
ComputeDistanceMatrix(dep, custs) ==
    LET n == NumCustomers + 1
        points == [i \in 0..(n - 1) |-> IF i = 0 THEN dep ELSE custs[i - 1]]
    IN [i \in 0..(n - 1) |->
          [j \in 0..(n - 1) |->
             IF i # j THEN DistanceTable[points[i]][points[j]] ELSE 0]]

CalculateRouteDistance(r) ==
    IF r = <<>> THEN 0
    ELSE distance_matrix[0][r[1] + 1]
         + SumSeq([k \in 1..(Len(r) - 1) |-> distance_matrix[r[k] + 1][r[k + 1] + 1]])
         + distance_matrix[r[Len(r)] + 1][0]

CalculateTotalDistance(rs) ==
    SumSeq([k \in 1..Len(rs) |-> CalculateRouteDistance(rs[k])])

\* The demand of the first customer only.
RouteLoadFirst(r) == IF r = <<>> THEN 0 ELSE demands[r[1]]
RouteLoad(r) == SumSeq([k \in 1..Len(r) |-> demands[r[k]]])

\* ------------------------------------------------------- savings list
\* The pairs (i, j), i < j, in the order of the two nested loops.
RECURSIVE PairsFrom(_, _)
PairsFrom(i, j) ==
    IF i >= NumCustomers THEN <<>>
    ELSE IF j >= NumCustomers THEN PairsFrom(i + 1, i + 2)
    ELSE <<<<i, j>>>> \o PairsFrom(i, j + 1)

SavingsValue(dm, i, j) == dm[0][i + 1] + dm[0][j + 1] - dm[i + 1][j + 1]

\* The list left in the order of the loops.
InsertUnsorted(sorted, e) == Append(sorted, e)

\* list.sort(key, reverse=True) is stable: an entry is placed after every
\* entry whose key is at least its own.
RECURSIVE InsertDescending(_, _)
InsertDescending(sorted, e) ==
    IF sorted = <<>> THEN <<e>>
    ELSE IF Head(sorted)[3] >= e[3]
         THEN <<Head(sorted)>> \o InsertDescending(Tail(sorted), e)
         ELSE <<e>> \o sorted

RECURSIVE SortDescending(_, _)
SortDescending(sorted, rest) ==
    IF rest = <<>> THEN sorted
    ELSE SortDescending(InsertDescending(sorted, Head(rest)), Tail(rest))

CalculateSavings(dm) ==
    LET pairs == PairsFrom(0, 1)
        savings == [k \in 1..Len(pairs) |->
                      <<pairs[k][1], pairs[k][2],
                        SavingsValue(dm, pairs[k][1], pairs[k][2])>>]
    IN SortDescending(<<>>, savings)

\* ------------------------------------------------------------- results
NoResult == [returned |-> FALSE]

Solution(rs, dist, unv) ==
    [returned |-> TRUE,
     routes |-> rs,
     total_distance |-> dist,
     num_vehicles_used |-> Len(rs),
     unvisited_customers |-> unv,
     feasible |-> (unv = {})]

\* ------------------------------------------------------ construction
\* The state after NearestNeighborVRP(...) and SavingsAlgorithmVRP(...) were
\* constructed for one problem instance.
InitProblem ==
    /\ depot \in Depots
    /\ customers \in [Customer -> Points]
    /\ demands \in [Customer -> 0..MaxDemand]
    /\ vehicle_capacity \in 1..MaxCapacity
    /\ distance_matrix = ComputeDistanceMatrix(depot, customers)

InitInstance ==
    /\ InitProblem
    /\ num_vehicles \in 0..MaxVehicles
    /\ savings_list = CalculateSavings(distance_matrix)

InitConstruct ==
    /\ InitInstance
    /\ pc = "start"
    /\ unvisited = {}
    /\ routes = <<>>
    /\ total_distance = 0
    /\ vehicle_count = 0
    /\ route = <<>>
    /\ current_load = 0
    /\ current_position = 0
    /\ route_distance = 0
    /\ route_loads = <<>>
    /\ customer_to_route = <<>>
    /\ sav_idx = 0
    /\ result = NoResult
    /\ heap = <<>>
    /\ initial_routes = 0
    /\ max_iterations = 0
    /\ call = 0
    /\ routes_at_call = <<>>
    /\ first_call = NoResult
    /\ current_routes = 0
    /\ current_distance = 0
    /\ improvement_found = FALSE
    /\ iterations_without_improvement = 0
    /\ total_iterations = 0

\* ------------------------------------------------- nearest neighbor
\* NearestNeighborVRP.solve, up to the while loop.
NNSolve ==
    /\ pc = "start"
    /\ unvisited' = Customer
    /\ routes' = <<>>
    /\ total_distance' = 0
    /\ vehicle_count' = 0
    /\ pc' = "nn_loop"
    /\ UNCHANGED <<instance, route, current_load, current_position,
                   route_distance, savState, result, optState>>

\* The guard of the while loop of solve.
NNLoopGuardOff(unv, count) == unv # {} /\ count <= num_vehicles
NNLoopGuardEarly(unv, count) == unv # {} /\ count + 1 < num_vehicles
NNLoopGuard(unv, count) == unv # {} /\ count < num_vehicles

\* The capacity test of _construct_route.
FitsAlways(load, c) == TRUE
Fits(load, c) == load + demands[c] <= vehicle_capacity

Feasible(unv, load) == {c \in unv : Fits(load, c)}

\* Any customer that fits, whatever its distance.
NearestAnyFeasible(unv, load, pos) == Feasible(unv, load)

\* The customers the scan of _construct_route can end with as
\* nearest_customer: the iteration order of the set is not fixed and the
\* comparison is strict, so every feasible customer at minimum distance is
\* the first one met in some order.
Nearest(unv, load, pos) ==
    {c \in Feasible(unv, load) :
        \A d \in Feasible(unv, load) :
            distance_matrix[pos][c + 1] <= distance_matrix[pos][d + 1]}

\* solve calls _construct_route: its initialisation.
NNBeginRoute ==
    /\ pc = "nn_loop"
    /\ NNLoopGuard(unvisited, vehicle_count)
    /\ route' = <<>>
    /\ current_load' = 0
    /\ current_position' = 0
    /\ route_distance' = 0
    /\ pc' = "nn_route"
    /\ UNCHANGED <<instance, unvisited, routes, total_distance, vehicle_count,
                   savState, result, optState>>

\* One iteration of the while loop of _construct_route that appends.
NNAppend ==
    /\ pc = "nn_route"
    /\ unvisited # {}
    /\ \E nearest_customer \in Nearest(unvisited, current_load, current_position) :
         /\ route' = Append(route, nearest_customer)
         /\ unvisited' = unvisited \ {nearest_customer}
         /\ current_load' = current_load + demands[nearest_customer]
         /\ route_distance' = route_distance
                + distance_matrix[current_position][nearest_customer + 1]
         /\ current_position' = nearest_customer + 1
    /\ UNCHANGED <<instance, pc, routes, total_distance, vehicle_count,
                   savState, result, optState>>

\* _construct_route without the leg back to the depot.
NNCloseRouteOpen ==
    /\ pc = "nn_route"
    /\ Nearest(unvisited, current_load, current_position) = {}
    /\ IF route # <<>>
       THEN /\ routes' = Append(routes, route)
            /\ total_distance' = total_distance + route_distance
            /\ vehicle_count' = vehicle_count + 1
            /\ pc' = "nn_loop"
       ELSE /\ pc' = "nn_break"
            /\ UNCHANGED <<routes, total_distance, vehicle_count>>
    /\ UNCHANGED <<instance, unvisited, route, current_load, current_position,
                   route_distance, savState, result, optState>>

\* _construct_route leaves its loop and returns; solve takes the route.
NNCloseRoute ==
    /\ pc = "nn_route"
    /\ Nearest(unvisited, current_load, current_position) = {}
    /\ LET closed == IF route # <<>>
                     THEN route_distance + distance_matrix[current_position][0]
                     ELSE route_distance
       IN IF route # <<>>
          THEN /\ routes' = Append(routes, route)
               /\ total_distance' = total_distance + closed
               /\ vehicle_count' = vehicle_count + 1
               /\ route_distance' = closed
               /\ pc' = "nn_loop"
          ELSE /\ route_distance' = closed
               /\ pc' = "nn_break"
               /\ UNCHANGED <<routes, total_distance, vehicle_count>>
    /\ UNCHANGED <<instance, unvisited, route, current_load, current_position,
                   savState, result, optState>>

\* solve leaves its loop (guard false, or break) and returns.
NNReturn ==
    /\ IF pc = "nn_loop" THEN ~NNLoopGuard(unvisited, vehicle_count)
       ELSE pc = "nn_break"
    /\ result' = Solution(routes, total_distance, unvisited)
    /\ pc' = "nn_done"
    /\ UNCHANGED <<instance, routes, nnState, savState, optState>>

\* ----------------------------------------------------------- savings
\* SavingsAlgorithmVRP.solve, up to the loop over the savings list.
SavingsSolve ==
    /\ pc = "start"
    /\ routes' = [k \in 1..NumCustomers |-> <<k - 1>>]
    /\ route_loads' = [k \in 1..NumCustomers |-> demands[k - 1]]
    /\ customer_to_route' = [c \in Customer |-> c]
    /\ sav_idx' = 1
    /\ pc' = IF savings_list = <<>> THEN "sav_final" ELSE "sav_loop"
    /\ UNCHANGED <<instance, nnState, result, optState>>

CanMergeRoutes(route1, route2, load1, load2, customer_i, customer_j) ==
    IF load1 + load2 > vehicle_capacity THEN FALSE
    ELSE LET i_at_end == route1[1] = customer_i \/ route1[Len(route1)] = customer_i
             j_at_end == route2[1] = customer_j \/ route2[Len(route2)] = customer_j
         IN i_at_end /\ j_at_end

\* The two routes joined as they are.
MergedRoutePlain(route1, route2, customer_i, customer_j) == route1 \o route2

\* The merged route of _merge_routes; positions are those of the source
\* (0 is the first customer).
MergedRoute(route1, route2, customer_i, customer_j) ==
    LET i_pos == IF route1[1] = customer_i THEN 0 ELSE Len(route1) - 1
        j_pos == IF route2[1] = customer_j THEN 0 ELSE Len(route2) - 1
    IN IF i_pos = Len(route1) - 1 /\ j_pos = 0 THEN route1 \o route2
       ELSE IF i_pos = 0 /\ j_pos = Len(route2) - 1 THEN route2 \o route1
       ELSE IF i_pos = Len(route1) - 1 /\ j_pos = Len(route2) - 1
            THEN route1 \o Reverse(route2)
       ELSE IF i_pos = 0 /\ j_pos = 0 THEN Reverse(route1) \o route2
       ELSE <<>>

\* One iteration of the loop over the savings list.
SavingsStep ==
    /\ pc = "sav_loop"
    /\ LET customer_i == savings_list[sav_idx][1]
           customer_j == savings_list[sav_idx][2]
           savings_value == savings_list[sav_idx][3]
           route_i == customer_to_route[customer_i]
           route_j == customer_to_route[customer_j]
           next_pc == IF sav_idx = Len(savings_list) THEN "sav_final" ELSE "sav_loop"
       IN IF savings_value <= 0
          THEN /\ pc' = "sav_final"
               /\ UNCHANGED <<routes, route_loads, customer_to_route, sav_idx>>
          ELSE IF route_i = route_j
          THEN /\ pc' = next_pc
               /\ sav_idx' = sav_idx + 1
               /\ UNCHANGED <<routes, route_loads, customer_to_route>>
          ELSE IF CanMergeRoutes(routes[route_i + 1], routes[route_j + 1],
                                 route_loads[route_i + 1], route_loads[route_j + 1],
                                 customer_i, customer_j)
          THEN LET merged_route == MergedRoute(routes[route_i + 1], routes[route_j + 1],
                                               customer_i, customer_j)
                   merged_load == RouteLoad(merged_route)
               IN /\ routes' = [routes EXCEPT ![route_i + 1] = merged_route,
                                              ![route_j + 1] = <<>>]
                  /\ route_loads' = [route_loads EXCEPT ![route_i + 1] = merged_load,
                                                        ![route_j + 1] = 0]
                  /\ customer_to_route' =
                        [c \in Customer |->
                            IF c \in Range(routes[route_j + 1]) THEN route_i
                            ELSE customer_to_route[c]]
                  /\ pc' = next_pc
                  /\ sav_idx' = sav_idx + 1
          ELSE /\ pc' = next_pc
               /\ sav_idx' = sav_idx + 1
               /\ UNCHANGED <<routes, route_loads, customer_to_route>>
    /\ UNCHANGED <<instance, nnState, result, optState>>

\* list.sort(key=itemgetter(1)) over (route, distance) pairs is stable: a
\* pair is placed after every pair whose distance is at most its own.
RECURSIVE InsertAscending(_, _)
InsertAscending(sorted, e) ==
    IF sorted = <<>> THEN <<e>>
    ELSE IF Head(sorted)[2] <= e[2]
         THEN <<Head(sorted)>> \o InsertAscending(Tail(sorted), e)
         ELSE <<e>> \o sorted

RECURSIVE SortAscending(_, _)
SortAscending(sorted, rest) ==
    IF rest = <<>> THEN sorted
    ELSE SortAscending(InsertAscending(sorted, Head(rest)), Tail(rest))

NonEmptyRoutes(rs) == SelectSeq(rs, LAMBDA r : r # <<>>)

\* The first num_vehicles routes, whatever their distance.
KeepFirstRoutes(rs) == IF Len(rs) > num_vehicles THEN SubSeq(rs, 1, num_vehicles) ELSE rs

\* The routes solve keeps: all of them, or the num_vehicles shortest.
KeepWithinVehicleLimit(rs) ==
    IF Len(rs) > num_vehicles
    THEN LET route_info == [k \in 1..Len(rs) |-> <<rs[k], CalculateRouteDistance(rs[k])>>]
             sorted == SortAscending(<<>>, route_info)
         IN [k \in 1..num_vehicles |-> sorted[k][1]]
    ELSE rs

\* The customers no route of rs serves.
UnservedBeforeLimit(rs) ==
    {c \in Customer : c \notin Range(Flatten(NonEmptyRoutes(routes)))}
Unserved(rs) == {c \in Customer : c \notin Range(Flatten(rs))}

\* solve after the loop: drop the empty routes, apply the vehicle limit,
\* return.
SavingsReturn ==
    /\ pc = "sav_final"
    /\ LET final_routes == KeepWithinVehicleLimit(NonEmptyRoutes(routes))
       IN result' = Solution(final_routes, CalculateTotalDistance(final_routes),
                             Unserved(final_routes))
    /\ pc' = "sav_done"
    /\ UNCHANGED <<instance, routes, nnState, savState, optState>>

NextConstruct ==
    \/ NNSolve
    \/ NNBeginRoute
    \/ NNAppend
    \/ NNCloseRoute
    \/ NNReturn
    \/ SavingsSolve
    \/ SavingsStep
    \/ SavingsReturn

Spec == InitConstruct /\ [][NextConstruct]_vars

\* ------------------------------------------------------------- 2-opt
\* 0.001, the improvement threshold, in units of 1/Scale.
Threshold == Scale \div 1000

\* The list objects of the run: heap[ref] is the content (the routes) of the
\* list object ref.  copy.deepcopy allocates a new list object with copies
\* of the routes.
NoCopy(h, ref) == [ref |-> ref, heap |-> h]
DeepCopy(h, ref) == [ref |-> Len(h) + 1, heap |-> Append(h, h[ref])]

IsRouteFeasible(r) == RouteLoad(r) <= vehicle_capacity

CheckFeasibility(rs) == \A k \in 1..Len(rs) : IsRouteFeasible(rs[k])

\* The pairs (i, j) of _improve_route_2opt in the order of its two loops:
\* i in range(n - 1), j in range(i + 2, n).
RECURSIVE TwoOptMoves(_, _, _)
TwoOptMoves(i, j, n) ==
    IF i >= n - 1 THEN <<>>
    ELSE IF j >= n THEN TwoOptMoves(i + 1, i + 3, n)
    ELSE <<<<i, j>>>> \o TwoOptMoves(i, j + 1, n)

\* The slice taken one position early: new_route[i:j+1] reversed.
ReverseSegmentFromI(r, i, j) ==
    [k \in 1..Len(r) |-> IF k >= i + 1 /\ k <= j + 1 THEN r[i + j + 2 - k] ELSE r[k]]

\* new_route[i+1:j+1] = reversed(new_route[i+1:j+1]), i and j as in the source.
ReverseSegment(r, i, j) ==
    [k \in 1..Len(r) |-> IF k >= i + 2 /\ k <= j + 1 THEN r[i + j + 3 - k] ELSE r[k]]

\* The loops of _improve_route_2opt over the remaining moves.
RECURSIVE TwoOptScan(_, _, _, _, _)
TwoOptScan(r, moves, best_distance, best_route, best_improvement) ==
    IF moves = <<>> THEN [route |-> best_route, improvement |-> best_improvement]
    ELSE LET new_route == ReverseSegment(r, Head(moves)[1], Head(moves)[2])
             improvement == best_distance - CalculateRouteDistance(new_route)
         IN IF ~IsRouteFeasible(new_route)
            THEN TwoOptScan(r, Tail(moves), best_distance, best_route, best_improvement)
            ELSE IF improvement > best_improvement
            THEN TwoOptScan(r, Tail(moves), best_distance, new_route, improvement)
            ELSE TwoOptScan(r, Tail(moves), best_distance, best_route, best_improvement)

ImproveRoute2opt(r) ==
    TwoOptScan(r, TwoOptMoves(0, 2, Len(r)), CalculateRouteDistance(r), r, 0)

\* The routes the for loop of improve_solution would change: those with at
\* least 3 customers whose best reversal improves by more than the threshold.
ImprovableNonStrict(rs) ==
    {k \in 1..Len(rs) : Len(rs[k]) >= 3 /\ ImproveRoute2opt(rs[k]).improvement >= 0}
Improvable(rs) ==
    {k \in 1..Len(rs) : Len(rs[k]) >= 3 /\ ImproveRoute2opt(rs[k]).improvement > Threshold}

Min(S) == CHOOSE x \in S : \A y \in S : x <= y

\* The guard of the while loop of improve_solution and inter_route_2opt.
LoopGuardTotal(found, without) == found /\ total_iterations < max_iterations
LoopGuard(found, without) == found /\ without < max_iterations

OptResult(ref, rs, dist, iterations) ==
    [returned |-> TRUE,
     routes_ref |-> ref,
     routes |-> rs,
     total_distance |-> dist,
     num_vehicles_used |-> Len(rs),
     improvement_iterations |-> iterations,
     feasible |-> CheckFeasibility(rs)]

\* The route lists handed to the improver: the customers 0..NumCustomers-1
\* in index order, cut into two routes (one of them may be empty).
Identity == [k \in 1..NumCustomers |-> k - 1]
InitialRouteSets ==
    {<<SubSeq(Identity, 1, m), SubSeq(Identity, m + 1, NumCustomers)>> :
        m \in 0..(NumCustomers - 1)}

\* The state after TwoOptVRP(...) was constructed and the caller built the
\* list of routes it will pass.
Idle ==
    /\ unvisited = {}
    /\ routes = <<>>
    /\ total_distance = 0
    /\ vehicle_count = 0
    /\ route = <<>>
    /\ current_load = 0
    /\ current_position = 0
    /\ route_distance = 0
    /\ route_loads = <<>>
    /\ customer_to_route = <<>>
    /\ sav_idx = 0
    /\ result = NoResult
    /\ initial_routes = 1
    /\ max_iterations = 0
    /\ call = 0
    /\ first_call = NoResult
    /\ current_routes = 0
    /\ current_distance = 0
    /\ improvement_found = FALSE
    /\ iterations_without_improvement = 0
    /\ total_iterations = 0

\* The state after TwoOptVRP(...) was constructed and the caller built the
\* list of routes it will pass.
InitImprove ==
    /\ InitProblem
    /\ num_vehicles = 0
    /\ savings_list = <<>>
    /\ pc = "start"
    /\ \E rs \in InitialRouteSets : heap = <<rs>> /\ routes_at_call = rs
    /\ Idle

\* The state before TwoOptVRP(...) is constructed.
InitNew ==
    /\ depot = <<0, 0>>
    /\ customers = <<>>
    /\ demands = <<>>
    /\ vehicle_capacity = 0
    /\ distance_matrix = <<>>
    /\ num_vehicles = 0
    /\ savings_list = <<>>
    /\ pc = "new"
    /\ heap = <<>>
    /\ routes_at_call = <<>>
    /\ Idle

\* TwoOptVRP.__init__ for one problem, and the caller's list of routes.  A
\* customer demands nothing or a whole vehicle of the largest capacity.
NewTwoOptVRP ==
    /\ pc = "new"
    /\ depot' \in Depots
    /\ customers' \in [Customer -> Points]
    /\ demands' \in [Customer -> {0, MaxCapacity}]
    /\ vehicle_capacity' = MaxCapacity
    /\ distance_matrix' = ComputeDistanceMatrix(depot', customers')
    /\ \E rs \in InitialRouteSets : heap' = <<rs>> /\ routes_at_call' = rs
    /\ pc' = "start"
    /\ UNCHANGED <<num_vehicles, savings_list, routes, nnState, savState, result,
                   initial_routes, max_iterations, call, first_call, current_routes,
                   current_distance, improvement_found,
                   iterations_without_improvement, total_iterations>>

\* improve_solution and inter_route_2opt up to their while loop, called with
\* the list object arg of the heap h.
EnterWith(h, arg, budget) ==
    LET copy == DeepCopy(h, arg)
    IN /\ heap' = copy.heap
       /\ current_routes' = copy.ref
       /\ current_distance' = CalculateTotalDistance(copy.heap[copy.ref])
       /\ improvement_found' = TRUE
       /\ iterations_without_improvement' = 0
       /\ total_iterations' = 0
       /\ initial_routes' = arg
       /\ routes_at_call' = h[arg]
       /\ max_iterations' = budget
       /\ call' = call + 1

Enter(arg, budget) == EnterWith(heap, arg, budget)

ImproveSolution ==
    /\ pc = "start"
    /\ \E budget \in 0..MaxIterations : Enter(initial_routes, budget)
    /\ pc' = "improve_loop"
    /\ UNCHANGED <<instance, routes, nnState, savState, result, first_call>>

\* The caller passes the routes of the first result to improve_solution again.
ImproveSolutionAgain ==
    /\ pc = "improve_done"
    /\ call = 1
    /\ \E budget \in 1..MaxIterations : Enter(result.routes_ref, budget)
    /\ first_call' = [max_iterations |-> max_iterations, result |-> result]
    /\ result' = NoResult
    /\ pc' = "improve_loop"
    /\ UNCHANGED <<instance, routes, nnState, savState>>

\* One pass of the while loop of improve_solution.
ImprovePass ==
    /\ pc = "improve_loop"
    /\ LoopGuard(improvement_found, iterations_without_improvement)
    /\ total_iterations < MaxPasses
    /\ total_iterations' = total_iterations + 1
    /\ LET rs == heap[current_routes]
       IN IF Improvable(rs) # {}
          THEN LET route_idx == Min(Improvable(rs))
                   improved == ImproveRoute2opt(rs[route_idx])
               IN /\ heap' = [heap EXCEPT ![current_routes][route_idx] = improved.route]
                  /\ current_distance' = current_distance - improved.improvement
                  /\ improvement_found' = TRUE
                  /\ iterations_without_improvement' = 0
          ELSE /\ improvement_found' = FALSE
               /\ iterations_without_improvement' = iterations_without_improvement + 1
               /\ UNCHANGED <<heap, current_distance>>
    /\ UNCHANGED <<instance, pc, routes, nnState, savState, result, callState,
                   current_routes>>

ImproveReturn ==
    /\ pc = "improve_loop"
    /\ ~LoopGuard(improvement_found, iterations_without_improvement)
    /\ result' = OptResult(current_routes, heap[current_routes], current_distance,
                           total_iterations)
    /\ pc' = "improve_done"
    /\ UNCHANGED <<instance, routes, nnState, savState, optState>>

InterRoute2opt ==
    /\ pc = "start"
    /\ \E budget \in 0..MaxIterations : Enter(initial_routes, budget)
    /\ pc' = "inter_loop"
    /\ UNCHANGED <<instance, routes, nnState, savState, result, first_call>>

\* The swaps (i, j, ci, cj) of inter_route_2opt in the order of its four
\* loops; indices as in the source.
RECURSIVE SwapMoves(_, _, _, _, _)
SwapMoves(rs, i, j, ci, cj) ==
    IF i >= Len(rs) THEN <<>>
    ELSE IF j >= Len(rs) THEN SwapMoves(rs, i + 1, i + 2, 0, 0)
    ELSE IF rs[i + 1] = <<>> \/ rs[j + 1] = <<>> THEN SwapMoves(rs, i, j + 1, 0, 0)
    ELSE IF ci >= Len(rs[i + 1]) THEN SwapMoves(rs, i, j + 1, 0, 0)
    ELSE IF cj >= Len(rs[j + 1]) THEN SwapMoves(rs, i, j, ci + 1, 0)
    ELSE <<<<i, j, ci, cj>>>> \o SwapMoves(rs, i, j, ci, cj + 1)

NewRouteI(rs, m) == [rs[m[1] + 1] EXCEPT ![m[3] + 1] = rs[m[2] + 1][m[4] + 1]]
\* Route j without the customer that came from route i.
NewRouteJKept(rs, m) == rs[m[2] + 1]
NewRouteJ(rs, m) == [rs[m[2] + 1] EXCEPT ![m[4] + 1] = rs[m[1] + 1][m[3] + 1]]

SwapFeasibleAlways(rs, m) == TRUE
SwapFeasible(rs, m) ==
    IsRouteFeasible(NewRouteI(rs, m)) /\ IsRouteFeasible(NewRouteJ(rs, m))

\* old_distance - new_distance of the swap m.
SwapImprovement(rs, m) ==
    (CalculateRouteDistance(rs[m[1] + 1]) + CalculateRouteDistance(rs[m[2] + 1]))
    - (CalculateRouteDistance(NewRouteI(rs, m)) + CalculateRouteDistance(NewRouteJ(rs, m)))

SwapAcceptedAny(rs, m) == SwapFeasible(rs, m)
SwapAcceptedLarge(rs, m) == SwapFeasible(rs, m) /\ SwapImprovement(rs, m) > Scale
SwapAccepted(rs, m) ==
    /\ SwapFeasible(rs, m)
    /\ (CalculateRouteDistance(NewRouteI(rs, m)) + CalculateRouteDistance(NewRouteJ(rs, m)))
         < (CalculateRouteDistance(rs[m[1] + 1]) + CalculateRouteDistance(rs[m[2] + 1]))
           - Threshold

\* The last accepted swap in scan order.
LastAccepted(rs, moves) ==
    LET accepted == SelectSeq(moves, LAMBDA m : SwapAccepted(rs, m))
    IN IF accepted = <<>> THEN <<>> ELSE <<accepted[Len(accepted)]>>

\* The first accepted swap in scan order, as a sequence of at most one move.
RECURSIVE FirstAccepted(_, _)
FirstAccepted(rs, moves) ==
    IF moves = <<>> THEN <<>>
    ELSE IF SwapAccepted(rs, Head(moves)) THEN <<Head(moves)>>
    ELSE FirstAccepted(rs, Tail(moves))

\* One pass of the while loop of inter_route_2opt.
InterPass ==
    /\ pc = "inter_loop"
    /\ LoopGuard(improvement_found, iterations_without_improvement)
    /\ total_iterations < MaxPasses
    /\ total_iterations' = total_iterations + 1
    /\ LET rs == heap[current_routes]
           first == FirstAccepted(rs, SwapMoves(rs, 0, 1, 0, 0))
       IN IF first # <<>>
          THEN LET m == first[1]
               IN /\ heap' = [heap EXCEPT ![current_routes][m[1] + 1] = NewRouteI(rs, m),
                                          ![current_routes][m[2] + 1] = NewRouteJ(rs, m)]
                  /\ current_distance' = current_distance - SwapImprovement(rs, m)
                  /\ improvement_found' = TRUE
                  /\ iterations_without_improvement' = 0
          ELSE /\ improvement_found' = FALSE
               /\ iterations_without_improvement' = iterations_without_improvement + 1
               /\ UNCHANGED <<heap, current_distance>>
    /\ UNCHANGED <<instance, pc, routes, nnState, savState, result, callState,
                   current_routes>>

InterReturn ==
    /\ pc = "inter_loop"
    /\ ~LoopGuard(improvement_found, iterations_without_improvement)
    /\ result' = OptResult(current_routes, heap[current_routes], current_distance,
                           total_iterations)
    /\ pc' = "inter_done"
    /\ UNCHANGED <<instance, routes, nnState, savState, optState>>

NextImprove ==
    \/ ImproveSolution
    \/ ImproveSolutionAgain
    \/ ImprovePass
    \/ ImproveReturn
    \/ InterRoute2opt
    \/ InterPass
    \/ InterReturn

SpecImprove == InitImprove /\ [][NextImprove]_vars

\* ---------------------------------------------------------- pipeline
\* The caller hands the routes of the nearest neighbor solution to
\* improve_solution.
ImproveConstructed ==
    /\ pc = "nn_done"
    /\ \E budget \in 0..MaxIterations : EnterWith(<<result.routes>>, 1, budget)
    /\ pc' = "improve_loop"
    /\ UNCHANGED <<instance, routes, nnState, savState, result, first_call>>

\* The caller hands the routes improve_solution returned to inter_route_2opt.
InterImproved ==
    /\ pc = "improve_done"
    /\ call = 1
    /\ \E budget \in 0..MaxIterations : Enter(result.routes_ref, budget)
    /\ pc' = "inter_loop"
    /\ UNCHANGED <<instance, routes, nnState, savState, result, first_call>>

NextPipeline ==
    \/ NNSolve
    \/ NNBeginRoute
    \/ NNAppend
    \/ NNCloseRoute
    \/ NNReturn
    \/ ImproveConstructed
    \/ ImprovePass
    \/ ImproveReturn
    \/ InterImproved
    \/ InterPass
    \/ InterReturn

SpecPipeline == InitConstruct /\ [][NextPipeline]_vars

InLoop == pc \in {"improve_loop", "inter_loop"}
Returned == pc \in {"improve_done", "inter_done"}
InCall == InLoop \/ Returned

NextImproveFair ==
    \/ NewTwoOptVRP
    \/ NextImprove

\* ENABLED <<ImprovePass \/ InterPass>>_vars: a pass changes
\* total_iterations, and beyond its guard it is defined in every state.
PassEnabled ==
    /\ InLoop
    /\ LoopGuard(improvement_found, iterations_without_improvement)
    /\ total_iterations < MaxPasses

\* A call runs to completion: a pass or a return that can be taken is
\* taken.  The weak fairness of the passes is written out, with PassEnabled
\* for ENABLED.
FairSpecImprove ==
    /\ InitNew
    /\ [][NextImproveFair]_vars
    /\ WF_vars(ImproveReturn)
    /\ WF_vars(InterReturn)
    /\ ([]<>(~PassEnabled) \/ []<><<ImprovePass \/ InterPass>>_vars)

\* ------------------------------------------------- constructor claims
NoDuplicates(s) == Cardinality(Range(s)) = Len(s)

WithinCapacity(rs) == \A k \in 1..Len(rs) : RouteLoad(rs[k]) <= vehicle_capacity

Oversize == {c \in Customer : demands[c] > vehicle_capacity}

\* C1: every route of the solution returned by SavingsAlgorithmVRP.solve()
\* has a demand sum <= vehicle_capacity.
C1_SavingsRoutesWithinCapacity ==
    pc = "sav_done" => WithinCapacity(result.routes)

\* C2: every route of the solution returned by NearestNeighborVRP.solve()
\* has a demand sum <= vehicle_capacity.
C2_NearestNeighborRoutesWithinCapacity ==
    pc = "nn_done" => WithinCapacity(result.routes)

\* A returned nearest neighbor solution in which a route is full and a
\* customer that fits an empty vehicle was left to a later route or unvisited.
C2_Witness ==
    /\ pc = "nn_done"
    /\ Len(result.routes) >= 1
    /\ RouteLoad(result.routes[1]) = vehicle_capacity
    /\ \E c \in Customer :
         /\ c \notin Range(result.routes[1])
         /\ demands[c] > 0
         /\ demands[c] <= vehicle_capacity

\* C3: for either constructor, a customer whose demand exceeds
\* vehicle_capacity is in unvisited_customers of the returned solution, and
\* feasible is false.
C3_OversizeCustomersUnvisited ==
    (pc \in {"nn_done", "sav_done"} /\ Oversize # {}) =>
        /\ Oversize \subseteq result.unvisited_customers
        /\ result.feasible = FALSE

\* C4: in every returned solution of either constructor no customer occurs
\* twice in the routes, none is both in a route and unvisited, and the
\* routes and unvisited_customers together are exactly 0..N-1.
C4_Partition ==
    pc \in {"nn_done", "sav_done"} =>
        LET served == Flatten(result.routes)
        IN /\ NoDuplicates(served)
           /\ Range(served) \cap result.unvisited_customers = {}
           /\ Range(served) \cup result.unvisited_customers = Customer

\* A savings solution cut to num_vehicles routes: a merged route is kept and
\* the customers of a dropped route are unvisited.
C4_Witness ==
    /\ pc = "sav_done"
    /\ Len(NonEmptyRoutes(routes)) > num_vehicles
    /\ result.unvisited_customers # {}
    /\ \E k \in 1..Len(result.routes) : Len(result.routes[k]) >= 2

\* C10: the solution returned by either constructor has at most
\* num_vehicles routes, none of them empty, and num_vehicles_used is the
\* number of routes.
C10_VehicleLimit ==
    pc \in {"nn_done", "sav_done"} =>
        /\ Len(result.routes) <= num_vehicles
        /\ \A k \in 1..Len(result.routes) : result.routes[k] # <<>>
        /\ result.num_vehicles_used = Len(result.routes)

\* A nearest neighbor solution that used every vehicle and left a customer
\* that fits a vehicle unvisited.
C10_Witness ==
    /\ pc = "nn_done"
    /\ num_vehicles >= 1
    /\ Len(result.routes) = num_vehicles
    /\ \E c \in result.unvisited_customers : demands[c] <= vehicle_capacity

\* ---------------------------------------------------- improver claims
\* C5: with every input route within capacity, every applied move strictly
\* decreases the total distance of the routes, and the routes returned by
\* improve_solution and inter_route_2opt are in total not longer than the
\* input routes.
C5_NeverLonger ==
    [][(InLoop /\ CheckFeasibility(routes_at_call)) =>
          /\ heap'[current_routes'] # heap[current_routes] =>
                CalculateTotalDistance(heap'[current_routes'])
                    < CalculateTotalDistance(heap[current_routes])
          /\ result'.returned =>
                CalculateTotalDistance(result'.routes)
                    <= CalculateTotalDistance(routes_at_call)]_vars

\* improve_solution returned after two reversals of feasible input routes.
C5_Witness ==
    /\ pc = "improve_done"
    /\ call = 1
    /\ CheckFeasibility(routes_at_call)
    /\ result.improvement_iterations >= 3
    /\ CalculateTotalDistance(result.routes) < CalculateTotalDistance(routes_at_call)

\* C6: with every input route within capacity, every route stays within
\* capacity after every applied move and in the returned solution, whose
\* feasible flag is true.
C6_StaysFeasible ==
    (InCall /\ CheckFeasibility(routes_at_call)) =>
        /\ CheckFeasibility(heap[current_routes])
        /\ result.returned => result.feasible

\* inter_route_2opt returned changed routes for a feasible input where a
\* swap that shortens the routes was not allowed by the capacity.
C6_Witness ==
    /\ pc = "inter_done"
    /\ CheckFeasibility(routes_at_call)
    /\ result.routes # routes_at_call
    /\ LET moves == SwapMoves(routes_at_call, 0, 1, 0, 0)
       IN \E k \in 1..Len(moves) :
            /\ ~SwapFeasible(routes_at_call, moves[k])
            /\ SwapImprovement(routes_at_call, moves[k]) > Threshold

\* C7: the list of routes passed by the caller, and every route in it, is
\* the same during and after improve_solution and inter_route_2opt as it was
\* at the call.
C7_CallerRoutesUntouched ==
    InCall => heap[initial_routes] = routes_at_call

\* A call returned routes that differ from the ones it was given.
C7_Witness ==
    /\ Returned
    /\ result.routes # routes_at_call
    /\ heap[initial_routes] = routes_at_call

\* C8 as stated: a second improve_solution on the routes returned by a
\* first one returns the same routes with the same total distance.
C8_SecondCallNoMove ==
    (call = 2 /\ pc = "improve_done") =>
        /\ result.routes = first_call.result.routes
        /\ result.total_distance = first_call.result.total_distance

\* C8 amended: if the first improve_solution ran with max_iterations >= 1,
\* a second improve_solution on the routes it returned applies no move: it
\* returns the same routes in the same order with the same total distance.
C8_FixedPointAfterFullRun ==
    (call = 2 /\ pc = "improve_done" /\ first_call.max_iterations >= 1) =>
        /\ result.routes = first_call.result.routes
        /\ result.total_distance = first_call.result.total_distance

\* The second call returned, after a first call that applied moves.
C8_Witness ==
    /\ call = 2
    /\ pc = "improve_done"
    /\ first_call.max_iterations >= 1
    /\ first_call.result.routes # heap[1]

\* C9: improve_solution and inter_route_2opt terminate: once the pass loop
\* is entered it is eventually left and the solution returned.
C9_Terminates == InLoop ~> Returned

\* A call returned after a pass that applied a move.
C9_Witness ==
    /\ Returned
    /\ result.improvement_iterations >= 2
    /\ result.routes # routes_at_call

\* The cap on the passes of the model is never what ends a loop.
PassCapNotReached == InLoop => total_iterations < MaxPasses

\* ------------------------------------------------------ further claims
\* C11: improve_solution called with max_iterations = k >= 1 returns only
\* after k consecutive passes without improvement (or at a maximum pass
\* count), and improvement_iterations counts all its passes.
C11_ReturnsAfterBudgetOfIdlePasses ==
    (pc = "improve_done" /\ max_iterations >= 1) =>
        /\ \/ iterations_without_improvement = max_iterations
           \/ total_iterations >= MaxPasses
        /\ result.improvement_iterations = total_iterations

\* C12: the total_distance of the solution returned by
\* NearestNeighborVRP.solve(), improve_solution and inter_route_2opt is the
\* sum over the returned routes of the depot -> c0 -> ... -> ck -> depot
\* distance of the distance matrix.
C12_TotalDistanceIsSumOfRoutes ==
    pc \in {"nn_done", "improve_done", "inter_done"} =>
        result.total_distance =
            SumSeq([k \in 1..Len(result.routes) |->
                LET r == result.routes[k]
                IN IF r = <<>> THEN 0
                   ELSE distance_matrix[0][r[1] + 1]
                        + SumSeq([p \in 1..(Len(r) - 1) |->
                                    distance_matrix[r[p] + 1][r[p + 1] + 1]])
                        + distance_matrix[r[Len(r)] + 1][0]])

\* inter_route_2opt returned after a swap, on routes that improve_solution
\* had shortened by a reversal after the nearest neighbor construction.
C12_Witness ==
    /\ pc = "inter_done"
    /\ result.routes # routes_at_call
    /\ CalculateTotalDistance(routes_at_call) < total_distance
    /\ result.total_distance < CalculateTotalDistance(routes_at_call)

\* C13: the savings list holds exactly one entry (i, j, s) for every
\* customer pair i < j, with s = D[0][i+1] + D[0][j+1] - D[i+1][j+1], in
\* non-increasing order of s; solve() takes its entries one after the other
\* in that order and never changes the list.
C13_SavingsListSortedAndKept ==
    /\ [](/\ \A i \in Customer : \A j \in Customer :
               i < j => Cardinality({k \in 1..Len(savings_list) :
                                       /\ savings_list[k][1] = i
                                       /\ savings_list[k][2] = j}) = 1
          /\ \A k \in 1..Len(savings_list) :
               LET i == savings_list[k][1]
                   j == savings_list[k][2]
               IN /\ i \in Customer /\ j \in Customer /\ i < j
                  /\ savings_list[k][3] =
                        distance_matrix[0][i + 1] + distance_matrix[0][j + 1]
                        - distance_matrix[i + 1][j + 1]
          /\ \A k \in 1..(Len(savings_list) - 1) :
               savings_list[k][3] >= savings_list[k + 1][3])
    /\ [][/\ savings_list' = savings_list
          /\ (pc = "start" /\ pc' = "sav_loop") => sav_idx' = 1
          /\ (pc = "sav_loop" /\ pc' = "sav_loop") => sav_idx' = sav_idx + 1
          /\ (pc = "sav_loop" /\ routes' # routes) =>
                \E k \in 1..Len(routes') :
                    {savings_list[sav_idx][1], savings_list[sav_idx][2]}
                        \subseteq Range(routes'[k])]_vars

\* solve() returned after merging for an entry that the sort moved ahead of
\* an entry the loops produced earlier.
C13_Witness ==
    /\ pc = "sav_done"
    /\ sav_idx >= 3
    /\ \E k \in 1..(Len(savings_list) - 1) :
         /\ savings_list[k][3] > savings_list[k + 1][3]
         /\ \/ savings_list[k][1] > savings_list[k + 1][1]
            \/ /\ savings_list[k][1] = savings_list[k + 1][1]
               /\ savings_list[k][2] > savings_list[k + 1][2]
    /\ \E k \in 1..Len(routes) : Len(routes[k]) >= 2

\* The number of positions of the sequence s that hold c.
Occurrences(s, c) == Cardinality({k \in 1..Len(s) : s[k] = c})

\* C14: during and after improve_solution every route is a permutation of
\* the input route of the same index; during and after inter_route_2opt the
\* number of routes and the length of every route are those of the input
\* and the customers of all routes together are the same multiset; so if
\* every customer is in exactly one input route, it is in exactly one route
\* after every move and in the result.
C14_CustomersKept ==
    InCall =>
        LET now == heap[current_routes]
            all_now == Flatten(now)
            all_at_call == Flatten(routes_at_call)
        IN /\ Len(now) = Len(routes_at_call)
           /\ \A k \in 1..Len(now) : Len(now[k]) = Len(routes_at_call[k])
           /\ pc \in {"improve_loop", "improve_done"} =>
                \A k \in 1..Len(now) : \A c \in Customer :
                    Occurrences(now[k], c) = Occurrences(routes_at_call[k], c)
           /\ \A c \in Customer :
                Occurrences(all_now, c) = Occurrences(all_at_call, c)
           /\ (\A c \in Customer : Occurrences(all_at_call, c) = 1) =>
                (\A c \in Customer : Occurrences(all_now, c) = 1)
           /\ Returned => result.routes = now

\* inter_route_2opt returned after swapping customers between two routes of
\* two customers each.
C14_Witness ==
    /\ pc = "inter_done"
    /\ Len(result.routes) = 2
    /\ Len(result.routes[1]) = 2
    /\ Len(result.routes[2]) = 2
    /\ Range(result.routes[1]) # Range(routes_at_call[1])

\* The index of the route of rs that holds the customer c.
RouteOf(rs, c) == CHOOSE k \in 1..Len(rs) : c \in Range(rs[k])

\* C15: solve() merges two routes for a savings entry (i, j) only if the
\* saving is > 0, i and j are in different routes, the combined load is
\* <= vehicle_capacity and i and j are each first or last in their route;
\* the merged route then has i and j at adjacent positions and consists of
\* the two routes, each in its original or reversed order, one after the
\* other.
C15_MergeRule ==
    [][(pc = "sav_loop" /\ routes' # routes) =>
          LET i == savings_list[sav_idx][1]
              j == savings_list[sav_idx][2]
              a == RouteOf(routes, i)
              b == RouteOf(routes, j)
              r1 == routes[a]
              r2 == routes[b]
              merged == routes'[a]
          IN /\ savings_list[sav_idx][3] > 0
             /\ a # b
             /\ SumSeq([k \in 1..Len(r1) |-> demands[r1[k]]])
                  + SumSeq([k \in 1..Len(r2) |-> demands[r2[k]]]) <= vehicle_capacity
             /\ i \in {r1[1], r1[Len(r1)]}
             /\ j \in {r2[1], r2[Len(r2)]}
             /\ routes'[b] = <<>>
             /\ \A k \in 1..Len(routes) : k \notin {a, b} => routes'[k] = routes[k]
             /\ \E p \in 1..(Len(merged) - 1) : {merged[p], merged[p + 1]} = {i, j}
             /\ \E x \in {r1, Reverse(r1)} : \E y \in {r2, Reverse(r2)} :
                    merged \in {x \o y, y \o x}]_vars

\* Two routes of two customers each were merged for the entry just taken,
\* whose customers are now the second and the third of the merged route.
C15_Witness ==
    /\ pc \in {"sav_loop", "sav_final"}
    /\ sav_idx >= 4
    /\ \E k \in 1..Len(routes) :
         /\ Len(routes[k]) = 4
         /\ {routes[k][2], routes[k][3]}
              = {savings_list[sav_idx - 1][1], savings_list[sav_idx - 1][2]}

\* C16: at the start of every iteration of the savings loop, for every
\* customer c the route routes[customer_to_route[c]] holds c and no other
\* route does, and route_loads[r] is the sum of the demands of routes[r]
\* for every route id r (0 for an absorbed route).
C16_MappingAndLoadsInStep ==
    pc = "sav_loop" =>
        /\ \A c \in Customer :
              /\ customer_to_route[c] \in 0..(Len(routes) - 1)
              /\ \A k \in 1..Len(routes) :
                    (\E p \in 1..Len(routes[k]) : routes[k][p] = c)
                        <=> (k = customer_to_route[c] + 1)
        /\ \A k \in 1..Len(routes) :
              route_loads[k] = SumSeq([p \in 1..Len(routes[k]) |-> demands[routes[k][p]]])

\* An iteration starts after two merges: a route of three customers with
\* positive load and two absorbed routes.
C16_Witness ==
    /\ pc = "sav_loop"
    /\ \E k \in 1..Len(routes) : Len(routes[k]) = 3 /\ route_loads[k] > 0
    /\ Cardinality({k \in 1..Len(routes) : routes[k] = <<>>}) = 2

C18_GreedyRule ==
    [][/\ (pc = "nn_route" /\ route' # route) =>
             LET c == route'[Len(route')]
             IN /\ route' = Append(route, c)
                /\ c \in unvisited
                /\ c \notin unvisited'
                /\ current_load + demands[c] <= vehicle_capacity
                /\ route = <<>> => current_position = 0
                /\ route # <<>> => current_position = route[Len(route)] + 1
                /\ \A d \in unvisited :
                      current_load + demands[d] <= vehicle_capacity =>
                          distance_matrix[current_position][c + 1]
                              <= distance_matrix[current_position][d + 1]
       /\ (pc = "nn_route" /\ pc' # "nn_route") =>
             \A d \in unvisited : current_load + demands[d] > vehicle_capacity]_vars

\* The second customer of a route was appended while a customer that fitted
\* as well, but lies strictly farther from the first, stayed unvisited.
C18_Witness ==
    /\ pc = "nn_route"
    /\ Len(route) = 2
    /\ \E d \in unvisited :
         /\ demands[route[1]] + demands[d] <= vehicle_capacity
         /\ distance_matrix[route[1] + 1][route[2] + 1]
              < distance_matrix[route[1] + 1][d + 1]

\* C19: NearestNeighborVRP.solve() returns only when all customers are
\* visited, or num_vehicles routes have been built, or a route construction
\* gave an empty route; so when it returns with unvisited customers, either
\* exactly num_vehicles routes were built or every unvisited customer has a
\* demand > vehicle_capacity.
C19_StopsOnlyWhenDone ==
    [][(pc # "nn_done" /\ pc' = "nn_done") =>
          /\ \/ unvisited = {}
             \/ Len(routes) = num_vehicles
             \/ pc = "nn_break" /\ route = <<>>
          /\ result'.unvisited_customers # {} =>
                \/ Len(result'.routes) = num_vehicles
                \/ \A c \in result'.unvisited_customers :
                      demands[c] > vehicle_capacity]_vars

\* solve() returned after an empty route: a route was built, a vehicle is
\* left, and a customer is unvisited.
C19_Witness ==
    /\ pc = "nn_done"
    /\ result.unvisited_customers # {}
    /\ Len(result.routes) >= 1
    /\ Len(result.routes) < num_vehicles
    /\ route = <<>>

\* C20: when inter_route_2opt returns (max_iterations >= 1) no improving
\* move remains: for every two distinct non-empty returned routes and every
\* pair of positions, one in each, swapping the two customers makes one of
\* the routes exceed the capacity or does not reduce the combined distance
\* of the two routes by more than 0.001.
C20_NoImprovingSwapLeft ==
    (pc = "inter_done" /\ max_iterations >= 1) =>
        LET rs == result.routes
            Load(r) == SumSeq([k \in 1..Len(r) |-> demands[r[k]]])
        IN \A a \in 1..Len(rs) : \A b \in 1..Len(rs) :
             (a # b /\ rs[a] # <<>> /\ rs[b] # <<>>) =>
                \A p \in 1..Len(rs[a]) : \A q \in 1..Len(rs[b]) :
                    LET new_a == [rs[a] EXCEPT ![p] = rs[b][q]]
                        new_b == [rs[b] EXCEPT ![q] = rs[a][p]]
                    IN \/ Load(new_a) > vehicle_capacity
                       \/ Load(new_b) > vehicle_capacity
                       \/ CalculateRouteDistance(new_a) + CalculateRouteDistance(new_b)
                            >= CalculateRouteDistance(rs[a]) + CalculateRouteDistance(rs[b])
                               - Threshold

\* inter_route_2opt returned after two swaps, and a swap that would shorten
\* the returned routes further is ruled out by the capacity alone.
C20_Witness ==
    /\ pc = "inter_done"
    /\ max_iterations >= 1
    /\ result.improvement_iterations >= 3
    /\ LET moves == SwapMoves(result.routes, 0, 1, 0, 0)
       IN \E k \in 1..Len(moves) :
            /\ ~SwapFeasible(result.routes, moves[k])
            /\ SwapImprovement(result.routes, moves[k]) > Threshold

\* The feasible candidate reversals of the route r: positions i+1..j of the
\* source reversed, for 0 <= i, i + 2 <= j <= len(r) - 1.
CandidateReversals(r) ==
    {c \in {[k \in 1..Len(r) |->
                IF k >= m[1] + 2 /\ k <= m[2] + 1 THEN r[m[1] + m[2] + 3 - k] ELSE r[k]] :
             m \in {x \in (0..(Len(r) - 1)) \X (0..(Len(r) - 1)) : x[1] + 2 <= x[2]}} :
        SumSeq([k \in 1..Len(c) |-> demands[c[k]]]) <= vehicle_capacity}

\* The largest improvement a candidate reversal of r gives, 0 if none does.
BestImprovement(r) ==
    LET gains == {CalculateRouteDistance(r) - CalculateRouteDistance(c) :
                     c \in CandidateReversals(r)} \cup {0}
    IN CHOOSE g \in gains : \A h \in gains : h <= g

\* The swaps (i, j, ci, cj) between two non-empty routes i < j of rs that
\* keep both routes within capacity and improve by more than 0.001.
ImprovingSwaps(rs) ==
    {m \in (0..(Len(rs) - 1)) \X (0..(Len(rs) - 1)) \X (0..(NumCustomers - 1))
            \X (0..(NumCustomers - 1)) :
        /\ m[1] < m[2]
        /\ m[3] < Len(rs[m[1] + 1])
        /\ m[4] < Len(rs[m[2] + 1])
        /\ LET ri == rs[m[1] + 1]
               rj == rs[m[2] + 1]
               ni == [ri EXCEPT ![m[3] + 1] = rj[m[4] + 1]]
               nj == [rj EXCEPT ![m[4] + 1] = ri[m[3] + 1]]
           IN /\ SumSeq([k \in 1..Len(ni) |-> demands[ni[k]]]) <= vehicle_capacity
              /\ SumSeq([k \in 1..Len(nj) |-> demands[nj[k]]]) <= vehicle_capacity
              /\ CalculateRouteDistance(ni) + CalculateRouteDistance(nj)
                   < CalculateRouteDistance(ri) + CalculateRouteDistance(rj) - Threshold}

\* m comes before n in the order of the four nested loops.
ScannedBefore(m, n) ==
    \E p \in 1..4 : m[p] < n[p] /\ \A q \in 1..(p - 1) : m[q] = n[q]

C22_FirstCustomerKept ==
    (pc \in {"improve_loop", "improve_done"}) =>
        LET now == heap[current_routes]
        IN /\ Len(now) = Len(routes_at_call)
           /\ \A k \in 1..Len(now) :
                /\ routes_at_call[k] # <<>> =>
                      now[k] # <<>> /\ now[k][1] = routes_at_call[k][1]
                /\ LET moves == TwoOptMoves(0, 2, Len(now[k]))
                   IN \A q \in 1..Len(moves) :
                        /\ moves[q][1] >= 0
                        /\ ReverseSegment(now[k], moves[q][1], moves[q][2])[1] = now[k][1]
           /\ pc = "improve_done" =>
                \A k \in 1..Len(result.routes) :
                    routes_at_call[k] # <<>> =>
                        result.routes[k][1] = routes_at_call[k][1]

\* improve_solution returned a reversed route, and reversing the returned
\* route from its first customer on would make it strictly shorter.
C22_Witness ==
    /\ pc = "improve_done"
    /\ \E k \in 1..Len(result.routes) :
         LET r == result.routes[k]
         IN /\ r # routes_at_call[k]
            /\ \E j \in 1..Len(r) :
                 CalculateRouteDistance([p \in 1..Len(r) |->
                                           IF p <= j THEN r[j + 1 - p] ELSE r[p]])
                     < CalculateRouteDistance(r) - Threshold

====
